---------------------------- MODULE Spec2Model ----------------------------
(*************************************************************************)
(* Model of kiwi's configuration layer:                                  *)
(*   BootLoaderConfigBase   (src/kiwi/bootloader_config_base.py)         *)
(*   VolumeManagerBase      (src/kiwi/volume_manager/base.py)            *)
(* and of the temporary directories of                                   *)
(*   InstallImageBuilder    (src/kiwi/builder/install.py).               *)
(* Python strings are TLA+ strings; they are taken apart with Len,       *)
(* SubSeq and \o, so substring tests, strip(), split(), startswith()     *)
(* and normpath() are computed character by character.                   *)
(*************************************************************************)
EXTENDS Integers, Sequences, FiniteSets, TLC

VARIABLES
    \* ---- the appliance descriptor read by BootLoaderConfigBase
    filesystem,            \* xml_state.build_type.get_filesystem()
    firmware,              \* xml_state.build_type.get_firmware()
    kernelcmdline,         \* xml_state.build_type.get_kernelcmdline()
    xml_volumes,           \* xml_state.get_volumes()
    need_boot_partition,   \* what DiskSetup.need_boot_partition() reports
    installboot,           \* xml_state.build_type.get_installboot()
    boottimeout,           \* xml_state.build_type.get_boottimeout():
                           \* <<>> for None, <<n>> for the integer n
    \* ---- the last finished call and what it produced
    op,                    \* name of the operation
    arg,                   \* its string arguments, in order
    raised,                \* the exception it raised, or None
    rettype,               \* Python type of its result: "str", "int", ...
    retstr,                \* its result when that is a string
    retint,                \* its result when that is an integer
    ext_calls,             \* external collaborators it invoked, in order
    \* ---- VolumeManagerBase
    root_dir,              \* self.root_dir
    volumes,               \* self.volumes, in configured order
    argvol,                \* index in volumes of the volume argument, or 0
    retlist,               \* canonical_volume_type.volumes
    retfull,               \* canonical_volume_type.full_size_volume:
                           \* <<>> for None, <<v>> for volume v
    exclude_paths,         \* what accumulate_mbyte_file_sizes was handed
    existing_paths,        \* the paths os.path.exists() answers true for
    \* ---- VolumeManagerBase: construction, mount root and data sync
    backend,               \* the class of the object: "base" is
                           \* VolumeManagerBase itself, any other a subclass
                           \* that supplies the hooks
    root_exists,           \* os.path.exists(root_dir)
    custom_args,           \* constructor argument: <<>> for None, <<d>> for
                           \* the dict d
    constructed,           \* __init__ has returned an object
    mountpoint,            \* self.mountpoint
    volume_map,            \* self.volume_map
    mount_list,            \* self.mount_list
    custom_filesystem_args,\* self.custom_filesystem_args
    mounted_at,            \* the mount root the volumes are mounted below,
                           \* or None while they are not mounted
    was_mounted,           \* what is_mounted() answered in the last sync_data
    \* ---- InstallImageBuilder
    media_dir,             \* self.media_dir
    pxe_dir,               \* self.pxe_dir
    squashed_contents,     \* self.squashed_contents
    temp_dirs,             \* the temporary directories present on disk
    made_dirs,             \* every temporary directory mkdtemp has handed out
    destroyed              \* __del__ has run

bootVars == <<filesystem, firmware, kernelcmdline, xml_volumes,
              need_boot_partition, installboot, boottimeout>>
callVars == <<op, arg, raised, rettype, retstr, retint, ext_calls>>
volVars == <<root_dir, volumes, existing_paths>>
volRet == <<argvol, retlist, retfull, exclude_paths>>
syncVars == <<backend, root_exists, custom_args, constructed, mountpoint,
              volume_map, mount_list, custom_filesystem_args, mounted_at,
              was_mounted>>
installVars == <<media_dir, pxe_dir, squashed_contents, temp_dirs, made_dirs,
                 destroyed>>
vars == <<bootVars, callVars, volVars, volRet, syncVars, installVars>>

\* Python's None, for string-valued fields and results
None == "<None>"

-----------------------------------------------------------------------------
(* Python string primitives                                                *)

\* the character at position i (1-based)
Char(s, i) == SubSeq(s, i, i)

\* Python: sub in s
Contains(s, sub) ==
    \E i \in 1..(Len(s) - Len(sub) + 1) : SubSeq(s, i, i + Len(sub) - 1) = sub

\* Python: s.startswith(prefix)
StartsWith(s, prefix) ==
    /\ Len(prefix) <= Len(s)
    /\ SubSeq(s, 1, Len(prefix)) = prefix

\* Python: s.strip() -- leading and trailing whitespace removed
RECURSIVE LStrip(_)
LStrip(s) ==
    IF Len(s) > 0 /\ Char(s, 1) = " " THEN LStrip(SubSeq(s, 2, Len(s))) ELSE s

RECURSIVE RStrip(_)
RStrip(s) ==
    IF Len(s) > 0 /\ Char(s, Len(s)) = " "
    THEN RStrip(SubSeq(s, 1, Len(s) - 1)) ELSE s

Strip(s) == RStrip(LStrip(s))

\* Python truthiness of an optional string: None and '' are false
Truthy(s) == s # None /\ s # ""

-----------------------------------------------------------------------------
(* BootLoaderConfigBase                                                    *)

Filesystems == {"btrfs", "ext4", "xfs"}
Firmwares == {"bios", "efi", "ec2", "ec2hvm", None}
Targets == {"disk", "iso", "usb", "pxe"}
KernelCmdlines ==
    { None, "", "quiet", " splash quiet ", "root=/dev/vda1",
      "quiet root=/dev/vda1 ", "nfsroot=srv:/x" }
XmlVolumeSets == { <<>>, <<"/home">>, <<"/home", "/var">> }

\* faulty variant: the btrfs prefix is applied without looking at the boot partition
get_boot_path_prefix_with_boot_partition(target) ==
    IF target # "disk" /\ target # "iso"
    THEN [raised |-> "KiwiBootLoaderTargetError", value |-> None,
          calls |-> <<>>]
    ELSE
      LET need == IF target = "disk" THEN need_boot_partition ELSE FALSE
          bootpath == IF target = "disk" /\ need THEN "/" ELSE "/boot"
          final == IF /\ target = "disk"
                      /\ filesystem = "btrfs" /\ xml_volumes # <<>>
                   THEN "/@" \o bootpath ELSE bootpath
      IN [raised |-> None, value |-> final,
          calls |-> IF target = "disk"
                    THEN <<"DiskSetup.need_boot_partition">> ELSE <<>>]

\* faulty variant: the btrfs prefix is applied to every target, and the layout
\* inspector is asked before the target is validated
get_boot_path_prefix_any_target(target) ==
    LET need == IF target = "disk" THEN need_boot_partition ELSE FALSE
        bootpath == IF target = "disk" /\ need THEN "/" ELSE "/boot"
        final == IF /\ ~need
                    /\ filesystem = "btrfs" /\ xml_volumes # <<>>
                 THEN "/@" \o bootpath ELSE bootpath
    IN IF target # "disk" /\ target # "iso"
       THEN [raised |-> "KiwiBootLoaderTargetError", value |-> None,
             calls |-> <<"DiskSetup.need_boot_partition">>]
       ELSE [raised |-> None, value |-> final,
             calls |-> IF target = "disk"
                       THEN <<"DiskSetup.need_boot_partition">> ELSE <<>>]

\* get_boot_path(target): [raised, value, calls]; calls lists the external
\* collaborators consulted
get_boot_path(target) ==
    IF target # "disk" /\ target # "iso"
    THEN [raised |-> "KiwiBootLoaderTargetError", value |-> None,
          calls |-> <<>>]
    ELSE
      LET need == IF target = "disk" THEN need_boot_partition ELSE FALSE
          bootpath == IF target = "disk" /\ need THEN "/" ELSE "/boot"
          final == IF /\ target = "disk" /\ ~need
                      /\ filesystem = "btrfs" /\ xml_volumes # <<>>
                   THEN "/@" \o bootpath ELSE bootpath
      IN [raised |-> None, value |-> final,
          calls |-> IF target = "disk"
                    THEN <<"DiskSetup.need_boot_partition">> ELSE <<>>]

\* faulty variant: the explicit root= of the command line is not looked at
get_root_cmdline_parameter_no_explicit_check ==
    IF kernelcmdline = None
    THEN [raised |-> "TypeError", value |-> None]
    ELSE IF firmware = "ec2"
         THEN [raised |-> None, value |-> "root=/dev/sda1"]
    ELSE IF firmware = "ec2hvm"
         THEN [raised |-> None, value |-> "root=/dev/hda1"]
    ELSE [raised |-> None, value |-> None]

\* __get_root_cmdline_parameter(): [raised, value]; value None when the
\* method falls off its end
get_root_cmdline_parameter ==
    IF kernelcmdline = None
    THEN [raised |-> "TypeError", value |-> None]    \* 'root=' in None
    ELSE IF Contains(kernelcmdline, "root=")
         THEN [raised |-> None, value |-> None]
    ELSE IF firmware = "ec2"
         THEN [raised |-> None, value |-> "root=/dev/sda1"]
    ELSE IF firmware = "ec2hvm"
         THEN [raised |-> None, value |-> "root=/dev/hda1"]
    ELSE [raised |-> None, value |-> None]

\* get_boot_cmdline(): [raised, value]
get_boot_cmdline ==
    LET c1 == IF Truthy(kernelcmdline) THEN "" \o " " \o kernelcmdline ELSE ""
        root == get_root_cmdline_parameter
        c2 == IF Truthy(root.value) THEN c1 \o " " \o root.value ELSE c1
    IN IF root.raised # None
       THEN [raised |-> root.raised, value |-> None]
       ELSE [raised |-> None, value |-> Strip(c2)]

\* no call has been made yet
NoCall ==
    /\ op = "none" /\ arg = <<>> /\ raised = None
    /\ rettype = "none" /\ retstr = None /\ retint = 0
    /\ ext_calls = <<>>
    /\ argvol = 0 /\ retlist = <<>> /\ retfull = <<>> /\ exclude_paths = <<>>

\* the descriptor fields while the bootloader configuration is not involved
BootIdle ==
    /\ filesystem = "ext4" /\ firmware = None /\ kernelcmdline = None
    /\ xml_volumes = <<>> /\ need_boot_partition = FALSE
    /\ installboot = None /\ boottimeout = <<>>

\* the value of an attribute that has not been assigned
Unset == "<unset>"

\* before VolumeManagerBase.__init__ has run
NotConstructed ==
    /\ constructed = FALSE
    /\ mountpoint = Unset /\ volume_map = <<Unset>> /\ mount_list = <<Unset>>
    /\ custom_filesystem_args = <<Unset>>
    /\ mounted_at = None /\ was_mounted = FALSE

\* construction, mount root and data sync are not involved
SyncIdle ==
    /\ backend = "base" /\ root_exists = TRUE /\ custom_args = <<>>
    /\ NotConstructed

\* the volume manager's fields while it is not involved
VolIdle ==
    root_dir = None /\ volumes = <<>> /\ existing_paths = {} /\ SyncIdle

\* before an InstallImageBuilder exists
InstallIdle ==
    /\ media_dir = None /\ pxe_dir = None /\ squashed_contents = None
    /\ temp_dirs = {} /\ made_dirs = {} /\ destroyed = FALSE

InitBoot ==
    /\ filesystem \in Filesystems
    /\ firmware \in Firmwares
    /\ kernelcmdline \in KernelCmdlines
    /\ xml_volumes \in XmlVolumeSets
    /\ need_boot_partition \in BOOLEAN
    /\ installboot = None /\ boottimeout = <<>>
    /\ VolIdle
    /\ InstallIdle
    /\ NoCall

GetBootPath ==
    \E target \in Targets :
      LET r == get_boot_path(target) IN
        /\ op' = "get_boot_path"
        /\ arg' = <<target>>
        /\ raised' = r.raised
        /\ rettype' = IF r.raised = None THEN "str" ELSE "none"
        /\ retstr' = r.value
        /\ ext_calls' = r.calls
        /\ UNCHANGED <<bootVars, installVars, volVars, volRet, syncVars, retint>>

GetBootCmdline ==
    LET r == get_boot_cmdline IN
      /\ op' = "get_boot_cmdline"
      /\ arg' = <<>>
      /\ raised' = r.raised
      /\ rettype' = IF r.raised = None THEN "str" ELSE "none"
      /\ retstr' = r.value
      /\ ext_calls' = <<>>
      /\ UNCHANGED <<bootVars, installVars, volVars, volRet, syncVars, retint>>

NextBoot == GetBootPath \/ GetBootCmdline

SpecBoot == InitBoot /\ [][NextBoot]_vars

-----------------------------------------------------------------------------
(* Claims about BootLoaderConfigBase, checked under SpecBoot               *)

\* number of positions of s at which sub occurs
Occurrences(s, sub) ==
    Cardinality({ i \in 1..(Len(s) - Len(sub) + 1) :
                    SubSeq(s, i, i + Len(sub) - 1) = sub })

\* C1: get_boot_path('disk') is '/' whenever a boot partition is needed,
\* whatever the filesystem and the volumes; without a boot partition it is
\* '/@/boot' exactly when the filesystem is btrfs and at least one volume
\* is configured, and '/boot' otherwise.
C1_BootPathDisk ==
    (op = "get_boot_path" /\ arg = <<"disk">>) =>
        /\ raised = None
        /\ need_boot_partition => retstr = "/"
        /\ ~need_boot_partition =>
              /\ (retstr = "/@/boot") <=>
                    (filesystem = "btrfs" /\ Len(xml_volumes) >= 1)
              /\ retstr \in {"/@/boot", "/boot"}

C1_Witness ==
    /\ op = "get_boot_path" /\ arg = <<"disk">>
    /\ ~need_boot_partition /\ filesystem = "btrfs" /\ Len(xml_volumes) = 2
    /\ retstr = "/@/boot"

\* C2: get_boot_path('iso') is '/boot' for every descriptor; any target
\* other than 'disk' and 'iso' raises KiwiBootLoaderTargetError and the
\* disk layout inspector has not been consulted.
C2_BootPathIsoAndInvalidTarget ==
    op = "get_boot_path" =>
        /\ arg = <<"iso">> => (raised = None /\ retstr = "/boot")
        /\ arg \notin {<<"disk">>, <<"iso">>} =>
              /\ raised = "KiwiBootLoaderTargetError"
              /\ retstr = None
              /\ \A i \in 1..Len(ext_calls) :
                    ext_calls[i] # "DiskSetup.need_boot_partition"

C2_Witness ==
    /\ op = "get_boot_path" /\ arg = <<"usb">>
    /\ raised = "KiwiBootLoaderTargetError"
    /\ filesystem = "btrfs" /\ xml_volumes # <<>> /\ need_boot_partition

\* C3: for a configured kernel command line, get_boot_cmdline returns the
\* trimmed command line with nothing appended when it contains 'root=',
\* for every firmware; without 'root=' it appends exactly one
\* 'root=/dev/sda1' for ec2, exactly one 'root=/dev/hda1' for ec2hvm and
\* nothing for any other firmware.
C3_BootCmdlineRoot ==
    (op = "get_boot_cmdline" /\ kernelcmdline # None) =>
        /\ raised = None
        /\ Contains(kernelcmdline, "root=") =>
              retstr = Strip(kernelcmdline)
        /\ (~Contains(kernelcmdline, "root=") /\ firmware = "ec2") =>
              /\ retstr = Strip(kernelcmdline \o " root=/dev/sda1")
              /\ Occurrences(retstr, "root=") = 1
        /\ (~Contains(kernelcmdline, "root=") /\ firmware = "ec2hvm") =>
              /\ retstr = Strip(kernelcmdline \o " root=/dev/hda1")
              /\ Occurrences(retstr, "root=") = 1
        /\ (~Contains(kernelcmdline, "root=")
              /\ firmware \notin {"ec2", "ec2hvm"}) =>
              retstr = Strip(kernelcmdline)

C3_Witness ==
    /\ op = "get_boot_cmdline" /\ firmware = "ec2"
    /\ kernelcmdline = " splash quiet "
    /\ retstr = "splash quiet  root=/dev/sda1"

-----------------------------------------------------------------------------
(* More Python primitives, used by VolumeManagerBase                       *)

\* the characters of the model's strings in ASCII order
AsciiOrder == " -./0123456789:=@_abcdefghijklmnopqrstuvwxyz"

\* rank of a character in ASCII order
Ord(c) == CHOOSE i \in 1..Len(AsciiOrder) : Char(AsciiOrder, i) = c

\* Python: a < b on strings (lexicographic by character code)
StrLess(a, b) ==
    \E k \in 0..Len(a) :
        /\ k <= Len(b)
        /\ SubSeq(a, 1, k) = SubSeq(b, 1, k)
        /\ \/ (k = Len(a) /\ k < Len(b))
           \/ (k < Len(a) /\ k < Len(b)
                 /\ Ord(Char(a, k + 1)) < Ord(Char(b, k + 1)))

\* Python: sorted(S) for a collection of distinct strings
RECURSIVE Sorted(_)
Sorted(S) ==
    IF S = {} THEN <<>>
    ELSE LET least == CHOOSE x \in S : \A y \in S \ {x} : StrLess(x, y)
         IN <<least>> \o Sorted(S \ {least})

\* Python: s.split(sep) for a one-character separator
RECURSIVE SplitFrom(_, _, _, _)
SplitFrom(s, sep, i, cur) ==
    IF i > Len(s) THEN <<cur>>
    ELSE IF Char(s, i) = sep
         THEN <<cur>> \o SplitFrom(s, sep, i + 1, "")
         ELSE SplitFrom(s, sep, i + 1, cur \o Char(s, i))

Split(s, sep) == SplitFrom(s, sep, 1, "")

\* Python: sep.join(parts)
RECURSIVE Join(_, _)
Join(parts, sep) ==
    IF parts = <<>> THEN ""
    ELSE IF Len(parts) = 1 THEN parts[1]
    ELSE parts[1] \o sep \o Join(Tail(parts), sep)

\* Python: int(s) for a string of decimal digits; -1 stands for ValueError
IsDigits(s) ==
    /\ Len(s) > 0
    /\ \A i \in 1..Len(s) : Contains("0123456789", Char(s, i))

RECURSIVE ParseDigits(_, _)
ParseDigits(s, acc) ==
    IF s = "" THEN acc
    ELSE ParseDigits(SubSeq(s, 2, Len(s)),
                     10 * acc + (Ord(Char(s, 1)) - Ord("0")))

ParseInt(s) == IF IsDigits(s) THEN ParseDigits(s, 0) ELSE -1

\* os.path.normpath (posixpath): the component loop
RECURSIVE NormComps(_, _, _)
NormComps(comps, new_comps, initial_slashes) ==
    IF comps = <<>> THEN new_comps
    ELSE LET comp == Head(comps) IN
         IF comp \in {"", "."}
         THEN NormComps(Tail(comps), new_comps, initial_slashes)
         ELSE IF \/ comp # ".."
                 \/ (initial_slashes = 0 /\ new_comps = <<>>)
                 \/ (new_comps # <<>> /\ new_comps[Len(new_comps)] = "..")
         THEN NormComps(Tail(comps), Append(new_comps, comp), initial_slashes)
         ELSE IF new_comps # <<>>
         THEN NormComps(Tail(comps),
                        SubSeq(new_comps, 1, Len(new_comps) - 1),
                        initial_slashes)
         ELSE NormComps(Tail(comps), new_comps, initial_slashes)

\* os.path.normpath(path)
NormPath(path) ==
    IF path = "" THEN "."
    ELSE LET initial_slashes ==
                 IF ~StartsWith(path, "/") THEN 0
                 ELSE IF StartsWith(path, "//") /\ ~StartsWith(path, "///")
                      THEN 2 ELSE 1
             joined == Join(NormComps(Split(path, "/"), <<>>,
                                      initial_slashes), "/")
             result == IF initial_slashes = 2 THEN "//" \o joined
                       ELSE IF initial_slashes = 1 THEN "/" \o joined
                       ELSE joined
         IN IF result = "" THEN "." ELSE result

-----------------------------------------------------------------------------
(* Collaborators of VolumeManagerBase that live outside these sources      *)

\* Path.sort_by_hierarchy: the paths grouped by depth, shallowest first,
\* each group in the order given
Depth(path) == Len(Split(path, "/"))

RECURSIVE PathsFromDepth(_, _, _)
PathsFromDepth(paths, depth, max_depth) ==
    IF depth > max_depth THEN <<>>
    ELSE SelectSeq(paths, LAMBDA p : Depth(p) = depth)
           \o PathsFromDepth(paths, depth + 1, max_depth)

sort_by_hierarchy(paths) ==
    IF paths = <<>> THEN <<>>
    ELSE LET depths == { Depth(paths[i]) : i \in 1..Len(paths) }
             max_depth == CHOOSE d \in depths : \A e \in depths : e <= d
         IN PathsFromDepth(paths, 1, max_depth)

\* Defaults.get_min_volume_mbytes()
MinVolumeMbytes == 30

\* the directories of the root tree, relative to the root directory, and
\* the megabytes of the files that lie directly in each
TreeDirs == {"/", "/etc", "/opt", "/var", "/var/log", "/variable"}

DirMbytes(dir) ==
    CASE dir = "/" -> 1
      [] dir = "/etc" -> 2
      [] dir = "/opt" -> 4
      [] dir = "/var" -> 8
      [] dir = "/var/log" -> 16
      [] dir = "/variable" -> 32

\* path is inside directory top: top itself or below it in the file system
Inside(path, top) ==
    \/ path = top
    \/ top = "/"
    \/ StartsWith(path, top \o "/")

RECURSIVE SumMbytes(_)
SumMbytes(dirs) ==
    IF dirs = {} THEN 0
    ELSE LET d == CHOOSE x \in dirs : TRUE
         IN DirMbytes(d) + SumMbytes(dirs \ {d})

\* SystemSize(source_dir).accumulate_mbyte_file_sizes(exclude): the
\* megabytes below source_dir in the tree at root, leaving out what is
\* inside an excluded path
accumulate_mbyte_file_sizes(root, source_dir, exclude) ==
    LET top == NormPath(root)
        absolute(d) == IF d = "/" THEN top ELSE top \o d
    IN SumMbytes({ d \in TreeDirs :
                     /\ Inside(absolute(d), source_dir)
                     /\ \A i \in 1..Len(exclude) :
                          ~Inside(absolute(d), exclude[i]) })

\* SystemSize.customize(size, filesystem_name): the measured size plus the
\* file system's overhead
customize(size, filesystem_name) ==
    IF filesystem_name = "xfs" THEN size + size \div 5
    ELSE size + size \div 2

-----------------------------------------------------------------------------
(* VolumeManagerBase: volume ordering and sizing                           *)

\* bounds on the configured volume list
MaxVolumes == 4
MaxSizedVolumes == 3

PathUniverse == {"/", "/opt", "/var", "/var/log", "/variable", None}
SizeSpecs == {"freespace:20", "size:100"}
RootDirs == {"/mnt", "img/"}
FilesystemNames == {"ext4", "xfs"}
ImageTypes == {None, "oem", "vmx"}

\* the realpath sequences of at most n volumes with unique realpaths
PathSeqs(n) ==
    { p \in UNION { [1..k -> PathUniverse] : k \in 0..n } :
        \A i, j \in 1..Len(p) : i # j => p[i] # p[j] }

\* Python: d[key] = value on a dict, here a function
DictSet(d, key, value) ==
    [k \in (DOMAIN d) \cup {key} |-> IF k = key THEN value ELSE d[k]]

\* faulty variant: 'if volume.realpath' instead of 'elif': a fullsize volume is
\* listed as well
RECURSIVE collect_volume_paths_fullsize_listed(_, _)
collect_volume_paths_fullsize_listed(vols, acc) ==
    IF vols = <<>> THEN acc
    ELSE LET volume == Head(vols)
             acc1 == IF volume.fullsize
                     THEN [acc EXCEPT !.full_size_volume = <<volume>>]
                     ELSE acc
         IN IF Truthy(volume.realpath)
            THEN collect_volume_paths_fullsize_listed(Tail(vols),
                   [acc1 EXCEPT !.volume_paths =
                       DictSet(@, volume.realpath, volume)])
            ELSE collect_volume_paths_fullsize_listed(Tail(vols), acc1)

\* faulty variant: the fullsize flag is not looked at
RECURSIVE collect_volume_paths_ignores_fullsize(_, _)
collect_volume_paths_ignores_fullsize(vols, acc) ==
    IF vols = <<>> THEN acc
    ELSE LET volume == Head(vols)
         IN IF Truthy(volume.realpath)
            THEN collect_volume_paths_ignores_fullsize(Tail(vols),
                   [acc EXCEPT !.volume_paths =
                       DictSet(@, volume.realpath, volume)])
            ELSE collect_volume_paths_ignores_fullsize(Tail(vols), acc)

\* faulty variant: the first fullsize volume is kept, later ones are dropped
RECURSIVE collect_volume_paths_first_fullsize(_, _)
collect_volume_paths_first_fullsize(vols, acc) ==
    IF vols = <<>> THEN acc
    ELSE LET volume == Head(vols)
         IN IF volume.fullsize
            THEN collect_volume_paths_first_fullsize(Tail(vols),
                   IF acc.full_size_volume = <<>>
                   THEN [acc EXCEPT !.full_size_volume = <<volume>>]
                   ELSE acc)
            ELSE IF Truthy(volume.realpath)
            THEN collect_volume_paths_first_fullsize(Tail(vols),
                   [acc EXCEPT !.volume_paths =
                       DictSet(@, volume.realpath, volume)])
            ELSE collect_volume_paths_first_fullsize(Tail(vols), acc)

\* get_canonical_volume_list, the loop over self.volumes (lines 243-249)
RECURSIVE collect_volume_paths(_, _)
collect_volume_paths(vols, acc) ==
    IF vols = <<>> THEN acc
    ELSE LET volume == Head(vols)
         IN IF volume.fullsize
            THEN collect_volume_paths(Tail(vols),
                   [acc EXCEPT !.full_size_volume = <<volume>>])
            ELSE IF Truthy(volume.realpath)
            THEN collect_volume_paths(Tail(vols),
                   [acc EXCEPT !.volume_paths =
                       DictSet(@, volume.realpath, volume)])
            ELSE collect_volume_paths(Tail(vols), acc)

\* the state of the loop before its first iteration
NoVolumePaths == [volume_paths |-> <<>>, full_size_volume |-> <<>>]

\* faulty variants of get_canonical_volume_list
get_canonical_volume_list_first_fullsize(vols) ==
    LET acc == collect_volume_paths_first_fullsize(vols, NoVolumePaths)
        order == sort_by_hierarchy(Sorted(DOMAIN acc.volume_paths))
    IN [volumes |-> [i \in 1..Len(order) |-> acc.volume_paths[order[i]]],
        full_size_volume |-> acc.full_size_volume]

get_canonical_volume_list_fullsize_listed(vols) ==
    LET acc == collect_volume_paths_fullsize_listed(vols, NoVolumePaths)
        order == sort_by_hierarchy(Sorted(DOMAIN acc.volume_paths))
    IN [volumes |-> [i \in 1..Len(order) |-> acc.volume_paths[order[i]]],
        full_size_volume |-> acc.full_size_volume]

get_canonical_volume_list_ignores_fullsize(vols) ==
    LET acc == collect_volume_paths_ignores_fullsize(vols, NoVolumePaths)
        order == sort_by_hierarchy(Sorted(DOMAIN acc.volume_paths))
    IN [volumes |-> [i \in 1..Len(order) |-> acc.volume_paths[order[i]]],
        full_size_volume |-> acc.full_size_volume]

\* get_canonical_volume_list(): [volumes, full_size_volume]
get_canonical_volume_list(vols) ==
    LET acc == collect_volume_paths(vols, NoVolumePaths)
        order == sort_by_hierarchy(Sorted(DOMAIN acc.volume_paths))
    IN [volumes |-> [i \in 1..Len(order) |-> acc.volume_paths[order[i]]],
        full_size_volume |-> acc.full_size_volume]

InitList ==
    /\ \E p \in PathSeqs(MaxVolumes) :
         \E f \in [1..Len(p) -> BOOLEAN] :
           volumes = [i \in 1..Len(p) |->
                        [realpath |-> p[i], size |-> "freespace:20",
                         fullsize |-> f[i]]]
    /\ root_dir = "/mnt"
    /\ SyncIdle
    /\ existing_paths = {}
    /\ BootIdle
    /\ InstallIdle
    /\ NoCall

GetCanonicalVolumeList ==
    LET r == get_canonical_volume_list(volumes) IN
      /\ op' = "get_canonical_volume_list"
      /\ arg' = <<>>
      /\ raised' = None
      /\ rettype' = "canonical_volume_type"
      /\ retlist' = r.volumes
      /\ retfull' = r.full_size_volume
      /\ ext_calls' = <<"Path.sort_by_hierarchy">>
      /\ UNCHANGED <<bootVars, installVars, volVars, syncVars, retstr, retint, argvol,
                   exclude_paths>>

NextList == GetCanonicalVolumeList

SpecList == InitList /\ [][NextList]_vars

-----------------------------------------------------------------------------
(* Claims about get_canonical_volume_list, checked under SpecList          *)

\* the names of the directories on the way to a path
Components(path) == SelectSeq(Split(path, "/"), LAMBDA c : c # "")

\* p is a proper ancestor of q in the path hierarchy
ProperAncestor(p, q) ==
    /\ Len(Components(p)) < Len(Components(q))
    /\ SubSeq(Components(q), 1, Len(Components(p))) = Components(p)

FullsizeIndexes == { i \in 1..Len(volumes) : volumes[i].fullsize }

RealpathsOf(vols) == [i \in 1..Len(vols) |-> vols[i].realpath]

\* C4: with unique realpaths and at most one fullsize volume, the ordered
\* list holds every non-fullsize volume that has a realpath exactly once
\* and nothing else, every ancestor path precedes its descendants, and the
\* fullsize volume is returned apart as full_size_volume (None without
\* one) and is not in the list.
C4_CanonicalList ==
    (op = "get_canonical_volume_list" /\ Cardinality(FullsizeIndexes) <= 1) =>
        /\ \A i \in 1..Len(volumes) :
             Cardinality({ j \in 1..Len(retlist) : retlist[j] = volumes[i] })
               = IF ~volumes[i].fullsize /\ Truthy(volumes[i].realpath)
                 THEN 1 ELSE 0
        /\ \A j \in 1..Len(retlist) :
             \E i \in 1..Len(volumes) : retlist[j] = volumes[i]
        /\ \A i, j \in 1..Len(retlist) :
             ProperAncestor(retlist[i].realpath, retlist[j].realpath) => i < j
        /\ retfull = IF FullsizeIndexes = {} THEN <<>>
                     ELSE <<volumes[CHOOSE i \in FullsizeIndexes : TRUE]>>

C4_Witness ==
    /\ op = "get_canonical_volume_list"
    /\ RealpathsOf(volumes) = <<"/var/log", "/variable", "/var", "/">>
    /\ FullsizeIndexes = {4}
    /\ RealpathsOf(retlist) = <<"/var", "/variable", "/var/log">>
    /\ retfull = <<volumes[4]>>

\* the volume set of C5: /var, /var/log and /opt, and a fullsize volume at /
C5_Input ==
    /\ Len(volumes) = 4
    /\ { volumes[i].realpath : i \in 1..4 } = {"/var", "/var/log", "/opt", "/"}
    /\ \A i \in 1..4 : volumes[i].fullsize <=> volumes[i].realpath = "/"

\* C5 as stated: for /var, /var/log, /opt and a fullsize volume at / the
\* ordered list is exactly [/var, /var/log, /opt] and full_size_volume is
\* the / volume.
C5_ListAsStated ==
    (op = "get_canonical_volume_list" /\ C5_Input) =>
        /\ RealpathsOf(retlist) = <<"/var", "/var/log", "/opt">>
        /\ Len(retfull) = 1 /\ retfull[1].realpath = "/"

\* C5 amended: for /var, /var/log, /opt and a fullsize volume at / the
\* ordered list is exactly [/opt, /var, /var/log] (the realpaths in
\* lexicographic order, which has /var before /var/log) and
\* full_size_volume is the / volume.
C5_ListLexicographic ==
    (op = "get_canonical_volume_list" /\ C5_Input) =>
        /\ RealpathsOf(retlist) = <<"/opt", "/var", "/var/log">>
        /\ \A j \in 1..Len(retlist) : ~retlist[j].fullsize
        /\ Len(retfull) = 1 /\ retfull[1].realpath = "/"
        /\ retfull[1].fullsize

C5_Witness ==
    /\ op = "get_canonical_volume_list"
    /\ RealpathsOf(volumes) = <<"/var", "/var/log", "/opt", "/">>
    /\ C5_Input
    /\ RealpathsOf(retlist) = <<"/opt", "/var", "/var/log">>
    /\ retfull = <<volumes[4]>>

-----------------------------------------------------------------------------
(* VolumeManagerBase.get_volume_mbsize                                     *)

\* the loop over all_volumes that collects exclude_paths (lines 287-301):
\* [raised, paths]
RECURSIVE collect_exclude_paths(_, _, _, _)
collect_exclude_paths(root, lookup_path, vols, acc) ==
    IF vols = <<>> THEN [raised |-> None, paths |-> acc]
    ELSE LET volume_path == Head(vols).realpath IN
         IF lookup_path = volume_path
         THEN collect_exclude_paths(root, lookup_path, Tail(vols), acc)
         ELSE IF lookup_path = "/"
         THEN IF volume_path = None     \* root_dir + os.sep + None
              THEN [raised |-> "TypeError", paths |-> acc]
              ELSE collect_exclude_paths(root, lookup_path, Tail(vols),
                     Append(acc, NormPath(root \o "/" \o volume_path)))
         ELSE IF volume_path = None     \* None.startswith
         THEN [raised |-> "AttributeError", paths |-> acc]
         ELSE IF lookup_path = None     \* volume_path.startswith(None)
         THEN [raised |-> "TypeError", paths |-> acc]
         ELSE IF StartsWith(volume_path, lookup_path)
         THEN collect_exclude_paths(root, lookup_path, Tail(vols),
                Append(acc, NormPath(root \o "/" \o volume_path)))
         ELSE collect_exclude_paths(root, lookup_path, Tail(vols), acc)

\* faulty variant: for image type oem the declared value is kept (no 'mbsize = 0')
get_volume_mbsize_oem_keeps_value(root, volume, all_volumes, filesystem_name, image_type) ==
    LET parts == Split(volume.size, ":") IN
    IF Len(parts) # 2
    THEN [raised |-> "ValueError", type |-> "none", int |-> 0, str |-> None,
          exclude |-> <<>>]
    ELSE
    LET lookup_path == volume.realpath
        oem == Truthy(image_type) /\ image_type = "oem"
        size_type == IF oem THEN "freespace" ELSE parts[1]
        \* mbsize is the int 0 for oem, else the str after the colon
        mbsize_int == ParseInt(parts[2])
    IN
    IF size_type = "freespace"
    THEN LET loop == collect_exclude_paths(root, lookup_path, all_volumes, <<>>)
             source_dir == NormPath(root \o "/" \o lookup_path)
         IN IF loop.raised # None
            THEN [raised |-> loop.raised, type |-> "none", int |-> 0,
                  str |-> None, exclude |-> loop.paths]
            ELSE IF lookup_path = None      \* root_dir + os.sep + None
            THEN [raised |-> "TypeError", type |-> "none", int |-> 0,
                  str |-> None, exclude |-> loop.paths]
            ELSE IF mbsize_int < 0          \* int() of a non-number
            THEN [raised |-> "ValueError", type |-> "none", int |-> 0,
                  str |-> None, exclude |-> loop.paths]
            ELSE [raised |-> None, type |-> "int",
                  int |-> mbsize_int + MinVolumeMbytes
                            + customize(
                                accumulate_mbyte_file_sizes(
                                    root, source_dir, loop.paths),
                                filesystem_name),
                  str |-> None, exclude |-> loop.paths]
    ELSE [raised |-> None, type |-> "str", int |-> 0, str |-> parts[2],
          exclude |-> <<>>]

\* get_volume_mbsize(volume, all_volumes, filesystem_name, image_type):
\* [raised, type, int, str, exclude]; the result is int when type = "int"
\* and str when type = "str"; exclude is the list handed to
\* accumulate_mbyte_file_sizes
get_volume_mbsize(root, volume, all_volumes, filesystem_name, image_type) ==
    LET parts == Split(volume.size, ":") IN
    IF Len(parts) # 2
    THEN [raised |-> "ValueError", type |-> "none", int |-> 0, str |-> None,
          exclude |-> <<>>]
    ELSE
    LET lookup_path == volume.realpath
        oem == Truthy(image_type) /\ image_type = "oem"
        size_type == IF oem THEN "freespace" ELSE parts[1]
        \* mbsize is the int 0 for oem, else the str after the colon
        mbsize_int == IF oem THEN 0 ELSE ParseInt(parts[2])
    IN
    IF size_type = "freespace"
    THEN LET loop == collect_exclude_paths(root, lookup_path, all_volumes, <<>>)
             source_dir == NormPath(root \o "/" \o lookup_path)
         IN IF loop.raised # None
            THEN [raised |-> loop.raised, type |-> "none", int |-> 0,
                  str |-> None, exclude |-> loop.paths]
            ELSE IF lookup_path = None      \* root_dir + os.sep + None
            THEN [raised |-> "TypeError", type |-> "none", int |-> 0,
                  str |-> None, exclude |-> loop.paths]
            ELSE IF mbsize_int < 0          \* int() of a non-number
            THEN [raised |-> "ValueError", type |-> "none", int |-> 0,
                  str |-> None, exclude |-> loop.paths]
            ELSE [raised |-> None, type |-> "int",
                  int |-> mbsize_int + MinVolumeMbytes
                            + customize(
                                accumulate_mbyte_file_sizes(
                                    root, source_dir, loop.paths),
                                filesystem_name),
                  str |-> None, exclude |-> loop.paths]
    ELSE [raised |-> None, type |-> "str", int |-> 0, str |-> parts[2],
          exclude |-> <<>>]

\* the volume set and the arguments of the call are drawn here; the call
\* is made on them. Only the size of the volume that is sized is read
\* (line 274), so the other volumes carry the default size spec.
InitSize ==
    /\ \E p \in PathSeqs(MaxSizedVolumes) :
         \E sized \in 1..Len(p), declared \in SizeSpecs :
           /\ volumes = [i \in 1..Len(p) |->
                          [realpath |-> p[i],
                           size |-> IF i = sized THEN declared
                                    ELSE "freespace:20",
                           fullsize |-> FALSE]]
           /\ argvol = sized
    /\ root_dir \in RootDirs
    /\ arg \in FilesystemNames \X ImageTypes
    /\ op = "none" /\ raised = None
    /\ rettype = "none" /\ retstr = None /\ retint = 0
    /\ ext_calls = <<>>
    /\ retlist = <<>> /\ retfull = <<>> /\ exclude_paths = <<>>
    /\ SyncIdle
    /\ existing_paths = {}
    /\ BootIdle
    /\ InstallIdle

\* get_volume_mbsize(volumes[argvol], volumes, arg[1], arg[2])
GetVolumeMbsize ==
      LET r == get_volume_mbsize(root_dir, volumes[argvol], volumes,
                                 arg[1], arg[2]) IN
        /\ op' = "get_volume_mbsize"
        /\ UNCHANGED <<arg, argvol>>
        /\ raised' = r.raised
        /\ rettype' = r.type
        /\ retint' = r.int
        /\ retstr' = r.str
        /\ exclude_paths' = r.exclude
        /\ ext_calls' = IF r.type = "int"
                        THEN <<"SystemSize.accumulate_mbyte_file_sizes",
                               "SystemSize.customize">>
                        ELSE <<>>
        /\ UNCHANGED <<bootVars, installVars, volVars, syncVars, retlist, retfull>>

NextSize == GetVolumeMbsize

SpecSize == InitSize /\ [][NextSize]_vars

-----------------------------------------------------------------------------
(* Claims about get_volume_mbsize, checked under SpecSize                  *)

\* the volume that is sized, and the other configured realpaths
SizedPath == volumes[argvol].realpath

OtherPaths ==
    { volumes[i].realpath : i \in (1..Len(volumes)) \ {argvol} }

AllHaveRealpath == \A i \in 1..Len(volumes) : volumes[i].realpath # None

\* the place of a volume path inside the root tree
InRoot(path) == NormPath(root_dir \o "/" \o path)

\* C6: with image_type 'oem' the declared size spec is ignored: whatever
\* its type and value, the result is the integer sum of the minimum volume
\* megabytes and the customized measured size of the volume's subtree
\* (extra value 0).
C6_OemIgnoresDeclaredSize ==
    (op = "get_volume_mbsize" /\ arg[2] = "oem") =>
        /\ AllHaveRealpath => raised = None
        /\ raised = None =>
             /\ rettype = "int"
             /\ retint = MinVolumeMbytes
                           + customize(
                               accumulate_mbyte_file_sizes(
                                   root_dir, InRoot(SizedPath), exclude_paths),
                               arg[1])

C6_Witness ==
    /\ op = "get_volume_mbsize" /\ arg = <<"ext4", "oem">>
    /\ root_dir = "img/"
    /\ RealpathsOf(volumes) = <<"/var", "/var/log">>
    /\ argvol = 1 /\ volumes[1].size = "size:100"
    /\ exclude_paths = <<"img/var/log">>
    /\ rettype = "int" /\ retint = 42

\* C7: in freespace sizing the excluded paths are, for the volume at '/',
\* the paths of all other configured volumes, and for a volume at another
\* path P exactly the other volumes whose path is a descendant of P; no
\* sibling, ancestor or unrelated path and never the volume's own path.
C7_ExcludedAreDescendants ==
    (op = "get_volume_mbsize" /\ rettype = "int") =>
        /\ { exclude_paths[i] : i \in 1..Len(exclude_paths) }
             = { InRoot(q) : q \in
                   { o \in OtherPaths :
                       SizedPath = "/" \/ ProperAncestor(SizedPath, o) } }
        /\ \A i \in 1..Len(exclude_paths) :
             exclude_paths[i] # InRoot(SizedPath)

-----------------------------------------------------------------------------
(* VolumeManagerBase: construction, mount root and data sync               *)

Backends == {"base", "lvm"}
MountRoots == {"/tmp/kiwi_volumes.a", "/tmp/kiwi_volumes.b"}
CustomArgsSet ==
    { <<>>,
      << <<>> >>,
      << [fs_create_options |-> <<"-F">>] >>,
      << [fs_mount_options |-> <<"ro", "noatime">>] >>,
      << [fs_create_options |-> <<"-F">>,
          fs_mount_options |-> <<"ro", "noatime">>] >>,
      << [fs_create_options |-> <<>>, other |-> <<"x">>] >> }

\* Python: custom_args and key in custom_args
Supplied(args, key) ==
    /\ args # <<>>
    /\ DOMAIN args[1] # {}
    /\ key \in DOMAIN args[1]

\* faulty variant: the mount options are taken from fs_create_options
init_mount_options_from_create_options(exists, args) ==
    IF ~exists
    THEN [raised |-> "KiwiVolumeManagerSetupError"]
    ELSE [raised |-> None,
          mountpoint |-> None,
          volume_map |-> <<>>,
          mount_list |-> <<>>,
          custom_filesystem_args |->
            [create_options |->
               IF Supplied(args, "fs_create_options")
               THEN args[1]["fs_create_options"] ELSE <<>>,
             mount_options |->
               IF Supplied(args, "fs_create_options")
               THEN args[1]["fs_create_options"] ELSE <<>>]]

\* __init__(device_provider, root_dir, volumes, custom_args): the exception
\* raised, or the attributes of the new object
init(exists, args) ==
    IF ~exists
    THEN [raised |-> "KiwiVolumeManagerSetupError"]
    ELSE [raised |-> None,
          mountpoint |-> None,
          volume_map |-> <<>>,
          mount_list |-> <<>>,
          custom_filesystem_args |->
            [create_options |->
               IF Supplied(args, "fs_create_options")
               THEN args[1]["fs_create_options"] ELSE <<>>,
             mount_options |->
               IF Supplied(args, "fs_mount_options")
               THEN args[1]["fs_mount_options"] ELSE <<>>]]

\* a subclass's mount_volumes: the volumes get mounted below the mount
\* root, unless the mount tool fails
subclass_mount_volumes(mp, at, ok) ==
    IF ok THEN [raised |-> None, mounted_at |-> mp]
    ELSE [raised |-> "KiwiCommandError", mounted_at |-> at]

\* a subclass's umount_volumes: the volumes get unmounted, unless the
\* umount tool fails
subclass_umount_volumes(mp, at, ok) ==
    IF ok THEN [raised |-> None, mounted_at |-> None]
    ELSE [raised |-> "KiwiCommandError", mounted_at |-> at]

\* self.mount_volumes(): [raised, mounted_at]
mount_volumes(be, mp, at, ok) ==
    IF be = "base"
    THEN [raised |-> "NotImplementedError", mounted_at |-> at]
    ELSE subclass_mount_volumes(mp, at, ok)

\* self.umount_volumes(): [raised, mounted_at]
umount_volumes(be, mp, at, ok) ==
    IF be = "base"
    THEN [raised |-> "NotImplementedError", mounted_at |-> at]
    ELSE subclass_umount_volumes(mp, at, ok)

\* MountManager(device=None, mountpoint).is_mounted()
is_mounted(mp, at) == at = mp

\* faulty variant: the volumes are left mounted after the copy
sync_data_no_umount(be, mp, at, mount_ok, copy_ok, umount_ok) ==
    IF ~Truthy(mp)
    THEN [raised |-> None, mounted_at |-> at, calls |-> <<>>,
          was_mounted |-> FALSE]
    ELSE
      LET found == is_mounted(mp, at)
          m == IF found THEN [raised |-> None, mounted_at |-> at]
               ELSE mount_volumes(be, mp, at, mount_ok)
          calls1 == <<"MountManager.is_mounted">>
                      \o (IF found THEN <<>> ELSE <<"mount_volumes">>)
      IN IF m.raised # None
         THEN [raised |-> m.raised, mounted_at |-> m.mounted_at,
               calls |-> calls1, was_mounted |-> found]
         ELSE IF ~copy_ok
         THEN [raised |-> "KiwiCommandError", mounted_at |-> m.mounted_at,
               calls |-> calls1 \o <<"DataSync.sync_data">>,
               was_mounted |-> found]
         ELSE [raised |-> None, mounted_at |-> m.mounted_at,
               calls |-> calls1 \o <<"DataSync.sync_data">>,
               was_mounted |-> found]

\* faulty variant: the volumes are unmounted only by the call that mounted them
sync_data_umount_only_own_mount(be, mp, at, mount_ok, copy_ok, umount_ok) ==
    IF ~Truthy(mp)
    THEN [raised |-> None, mounted_at |-> at, calls |-> <<>>,
          was_mounted |-> FALSE]
    ELSE
      LET found == is_mounted(mp, at)
          m == IF found THEN [raised |-> None, mounted_at |-> at]
               ELSE mount_volumes(be, mp, at, mount_ok)
          calls1 == <<"MountManager.is_mounted">>
                      \o (IF found THEN <<>> ELSE <<"mount_volumes">>)
          u == umount_volumes(be, mp, m.mounted_at, umount_ok)
      IN IF m.raised # None
         THEN [raised |-> m.raised, mounted_at |-> m.mounted_at,
               calls |-> calls1, was_mounted |-> found]
         ELSE IF ~copy_ok
         THEN [raised |-> "KiwiCommandError", mounted_at |-> m.mounted_at,
               calls |-> calls1 \o <<"DataSync.sync_data">>,
               was_mounted |-> found]
         ELSE IF found
         THEN [raised |-> None, mounted_at |-> m.mounted_at,
               calls |-> calls1 \o <<"DataSync.sync_data">>,
               was_mounted |-> found]
         ELSE [raised |-> u.raised, mounted_at |-> u.mounted_at,
               calls |-> calls1 \o <<"DataSync.sync_data", "umount_volumes">>,
               was_mounted |-> found]

\* sync_data(exclude): [raised, mounted_at, calls, was_mounted]; the three
\* flags say whether the mount, the copy and the umount tool succeed
sync_data(be, mp, at, mount_ok, copy_ok, umount_ok) ==
    IF ~Truthy(mp)
    THEN [raised |-> None, mounted_at |-> at, calls |-> <<>>,
          was_mounted |-> FALSE]
    ELSE
      LET found == is_mounted(mp, at)
          m == IF found THEN [raised |-> None, mounted_at |-> at]
               ELSE mount_volumes(be, mp, at, mount_ok)
          calls1 == <<"MountManager.is_mounted">>
                      \o (IF found THEN <<>> ELSE <<"mount_volumes">>)
          u == umount_volumes(be, mp, m.mounted_at, umount_ok)
      IN IF m.raised # None
         THEN [raised |-> m.raised, mounted_at |-> m.mounted_at,
               calls |-> calls1, was_mounted |-> found]
         ELSE IF ~copy_ok
         THEN [raised |-> "KiwiCommandError", mounted_at |-> m.mounted_at,
               calls |-> calls1 \o <<"DataSync.sync_data">>,
               was_mounted |-> found]
         ELSE [raised |-> u.raised, mounted_at |-> u.mounted_at,
               calls |-> calls1 \o <<"DataSync.sync_data", "umount_volumes">>,
               was_mounted |-> found]

InitSync ==
    /\ backend \in Backends
    /\ root_exists \in BOOLEAN
    /\ custom_args \in CustomArgsSet
    /\ root_dir \in RootDirs
    /\ volumes = <<[realpath |-> "/var", size |-> "freespace:20",
                    fullsize |-> FALSE]>>
    /\ NotConstructed
    /\ existing_paths = {}
    /\ BootIdle
    /\ InstallIdle
    /\ NoCall

\* what a call leaves alone besides the object's attributes
callRest == <<rettype, retstr, retint, argvol, retlist, retfull,
              exclude_paths>>

Construct ==
    /\ ~constructed
    /\ LET r == init(root_exists, custom_args) IN
         /\ op' = "__init__"
         /\ arg' = <<>>
         /\ raised' = r.raised
         /\ ext_calls' = <<"DeviceProvider.get_device", "os.path.exists">>
         /\ IF r.raised # None
            THEN UNCHANGED <<constructed, mountpoint, volume_map, mount_list,
                             custom_filesystem_args>>
            ELSE /\ constructed' = TRUE
                 /\ mountpoint' = r.mountpoint
                 /\ volume_map' = r.volume_map
                 /\ mount_list' = r.mount_list
                 /\ custom_filesystem_args' = r.custom_filesystem_args
    /\ UNCHANGED <<bootVars, installVars, volVars, callRest, backend, root_exists,
                   custom_args, mounted_at, was_mounted>>

\* setup_mountpoint(): mkdtemp gives a directory that did not exist
SetupMountpoint ==
    /\ constructed
    /\ \E fresh \in MountRoots \ {mountpoint} : mountpoint' = fresh
    /\ op' = "setup_mountpoint"
    /\ arg' = <<>>
    /\ raised' = None
    /\ ext_calls' = <<"mkdtemp">>
    /\ UNCHANGED <<bootVars, installVars, volVars, callRest, backend, root_exists,
                   custom_args, constructed, volume_map, mount_list,
                   custom_filesystem_args, mounted_at, was_mounted>>

MountVolumes ==
    /\ constructed
    /\ backend = "base" \/ Truthy(mountpoint)
    /\ \E ok \in BOOLEAN :
         LET r == mount_volumes(backend, mountpoint, mounted_at, ok) IN
           /\ raised' = r.raised
           /\ mounted_at' = r.mounted_at
    /\ op' = "mount_volumes"
    /\ arg' = <<>>
    /\ ext_calls' = <<>>
    /\ UNCHANGED <<bootVars, installVars, volVars, callRest, backend, root_exists,
                   custom_args, constructed, mountpoint, volume_map,
                   mount_list, custom_filesystem_args, was_mounted>>

UmountVolumes ==
    /\ constructed
    /\ \E ok \in BOOLEAN :
         LET r == umount_volumes(backend, mountpoint, mounted_at, ok) IN
           /\ raised' = r.raised
           /\ mounted_at' = r.mounted_at
    /\ op' = "umount_volumes"
    /\ arg' = <<>>
    /\ ext_calls' = <<>>
    /\ UNCHANGED <<bootVars, installVars, volVars, callRest, backend, root_exists,
                   custom_args, constructed, mountpoint, volume_map,
                   mount_list, custom_filesystem_args, was_mounted>>

SyncData ==
    /\ constructed
    /\ \E mount_ok, copy_ok, umount_ok \in BOOLEAN :
         LET r == sync_data(backend, mountpoint, mounted_at,
                            mount_ok, copy_ok, umount_ok) IN
           /\ raised' = r.raised
           /\ mounted_at' = r.mounted_at
           /\ ext_calls' = r.calls
           /\ was_mounted' = r.was_mounted
    /\ op' = "sync_data"
    /\ arg' = <<>>
    /\ UNCHANGED <<bootVars, installVars, volVars, callRest, backend, root_exists,
                   custom_args, constructed, mountpoint, volume_map,
                   mount_list, custom_filesystem_args>>

NextSync ==
    \/ Construct
    \/ SetupMountpoint
    \/ MountVolumes
    \/ UmountVolumes
    \/ SyncData

SpecSync == InitSync /\ [][NextSync]_vars

-----------------------------------------------------------------------------
(* Claims about construction and sync_data, checked under SpecSync         *)

\* the positions of an external call in the log of the last operation
Calls(name) == { i \in 1..Len(ext_calls) : ext_calls[i] = name }

\* C8: with a mount root set and every external step succeeding, sync_data
\* ends with the volumes unmounted whether or not they were mounted on
\* entry; when they were not, it mounts them before the copy; the copy is
\* made, once, before the unmount.
C8_SyncDataEndsUnmounted ==
    (op = "sync_data" /\ Truthy(mountpoint) /\ raised = None) =>
        /\ mounted_at = None
        /\ Cardinality(Calls("DataSync.sync_data")) = 1
        /\ Cardinality(Calls("umount_volumes")) = 1
        /\ \A c \in Calls("DataSync.sync_data"), u \in Calls("umount_volumes") :
             c < u
        /\ ~was_mounted =>
             /\ Cardinality(Calls("mount_volumes")) = 1
             /\ \A m \in Calls("mount_volumes"),
                   c \in Calls("DataSync.sync_data") : m < c
        /\ was_mounted => Calls("mount_volumes") = {}

C8_Witness ==
    /\ op = "sync_data" /\ raised = None /\ ~was_mounted
    /\ mountpoint = "/tmp/kiwi_volumes.a"
    /\ ext_calls = <<"MountManager.is_mounted", "mount_volumes",
                     "DataSync.sync_data", "umount_volumes">>
    /\ mounted_at = None

\* C9: when the data copy inside sync_data fails, the volumes sync_data
\* mounted are unmounted again before the error reaches the caller.
C9_CopyFailureUnmounts ==
    ( /\ op = "sync_data" /\ raised # None
      /\ Len(ext_calls) > 0
      /\ ext_calls[Len(ext_calls)] = "DataSync.sync_data"
      /\ Calls("mount_volumes") # {} ) =>
        mounted_at = None

\* C10: construction with a root directory that does not exist raises
\* KiwiVolumeManagerSetupError and gives no object; with an existing root
\* directory it succeeds, with mountpoint None, empty mount_list and
\* volume_map, and the create and mount options equal to the supplied
\* fs_create_options and fs_mount_options, each empty when not supplied.
C10_Construction ==
    op = "__init__" =>
        /\ ~root_exists =>
             (raised = "KiwiVolumeManagerSetupError" /\ ~constructed)
        /\ root_exists =>
             /\ raised = None /\ constructed
             /\ mountpoint = None
             /\ mount_list = <<>>
             /\ volume_map = <<>>
             /\ DOMAIN custom_filesystem_args
                  = {"create_options", "mount_options"}
             /\ custom_filesystem_args.create_options =
                  IF custom_args # <<>>
                       /\ "fs_create_options" \in DOMAIN custom_args[1]
                  THEN custom_args[1].fs_create_options ELSE <<>>
             /\ custom_filesystem_args.mount_options =
                  IF custom_args # <<>>
                       /\ "fs_mount_options" \in DOMAIN custom_args[1]
                  THEN custom_args[1].fs_mount_options ELSE <<>>

C10_Witness ==
    /\ op = "__init__" /\ raised = None /\ constructed
    /\ custom_args = << [fs_create_options |-> <<"-F">>,
                         fs_mount_options |-> <<"ro", "noatime">>] >>
    /\ custom_filesystem_args =
         [create_options |-> <<"-F">>, mount_options |-> <<"ro", "noatime">>]
    /\ mountpoint = None /\ mount_list = <<>> /\ volume_map = <<>>

-----------------------------------------------------------------------------
(* The abstract hooks of the two base classes                              *)

BootLoaderHooks ==
    { "write", "setup_disk_image_config", "setup_install_image_config",
      "setup_live_image_config", "setup_disk_boot_images",
      "setup_install_boot_images", "setup_live_boot_images" }

VolumeManagerHooks ==
    { "setup", "create_volumes", "get_fstab", "get_volumes",
      "mount_volumes", "umount_volumes" }

\* faulty variant: write() returns without raising
boot_loader_hook_write_returns(name) ==
    [raised |-> IF name = "write" THEN None ELSE "NotImplementedError"]

\* the body of an abstract hook of BootLoaderConfigBase: [raised]
boot_loader_hook(name) == [raised |-> "NotImplementedError"]

\* the body of setup, create_volumes, get_fstab and get_volumes of
\* VolumeManagerBase: [raised]
volume_manager_hook(name) == [raised |-> "NotImplementedError"]

\* set_property_readonly_root(): [raised]
set_property_readonly_root == [raised |-> "KiwiVolumeManagerSetupError"]

\* a call of an abstract hook of a BootLoaderConfigBase object; the
\* arguments of the hook are not read
BootLoaderHook(name) ==
    LET r == boot_loader_hook(name) IN
      /\ op' = name
      /\ arg' = <<>>
      /\ raised' = r.raised
      /\ ext_calls' = <<>>
      /\ UNCHANGED <<bootVars, installVars, volVars, callRest, syncVars>>

Write == BootLoaderHook("write")
SetupDiskImageConfig == BootLoaderHook("setup_disk_image_config")
SetupInstallImageConfig == BootLoaderHook("setup_install_image_config")
SetupLiveImageConfig == BootLoaderHook("setup_live_image_config")
SetupDiskBootImages == BootLoaderHook("setup_disk_boot_images")
SetupInstallBootImages == BootLoaderHook("setup_install_boot_images")
SetupLiveBootImages == BootLoaderHook("setup_live_boot_images")

\* a call of setup, create_volumes, get_fstab or get_volumes of a
\* VolumeManagerBase object
VolumeManagerHook(name) ==
    /\ constructed
    /\ backend = "base"
    /\ LET r == volume_manager_hook(name) IN
         /\ op' = name
         /\ arg' = <<>>
         /\ raised' = r.raised
         /\ ext_calls' = <<>>
    /\ UNCHANGED <<bootVars, installVars, volVars, callRest, syncVars>>

Setup == VolumeManagerHook("setup")
CreateVolumes == VolumeManagerHook("create_volumes")
GetFstab == VolumeManagerHook("get_fstab")
GetVolumes == VolumeManagerHook("get_volumes")

SetPropertyReadonlyRoot ==
    /\ constructed
    /\ LET r == set_property_readonly_root IN
         /\ op' = "set_property_readonly_root"
         /\ arg' = <<>>
         /\ raised' = r.raised
         /\ ext_calls' = <<>>
    /\ UNCHANGED <<bootVars, installVars, volVars, callRest, syncVars>>

\* a BootLoaderConfigBase object over any descriptor and a VolumeManagerBase
\* object that is not of a subclass
InitHooks ==
    /\ filesystem \in Filesystems
    /\ firmware \in Firmwares
    /\ kernelcmdline = None
    /\ xml_volumes = <<>>
    /\ need_boot_partition = FALSE
    /\ installboot = None /\ boottimeout = <<>>
    /\ backend = "base"
    /\ root_exists = TRUE
    /\ custom_args \in CustomArgsSet
    /\ root_dir \in RootDirs
    /\ volumes = <<[realpath |-> "/var", size |-> "freespace:20",
                    fullsize |-> FALSE]>>
    /\ NotConstructed
    /\ existing_paths = {}
    /\ InstallIdle
    /\ NoCall

NextHooks ==
    \/ Write
    \/ SetupDiskImageConfig
    \/ SetupInstallImageConfig
    \/ SetupLiveImageConfig
    \/ SetupDiskBootImages
    \/ SetupInstallBootImages
    \/ SetupLiveBootImages
    \/ Construct
    \/ SetupMountpoint
    \/ Setup
    \/ CreateVolumes
    \/ GetFstab
    \/ GetVolumes
    \/ MountVolumes
    \/ UmountVolumes
    \/ SetPropertyReadonlyRoot

SpecHooks == InitHooks /\ [][NextHooks]_vars

\* the state of the two objects and of what they were built from
ObjectState == <<bootVars, volVars, syncVars, installVars>>

\* C11: on the base classes every abstract hook of the bootloader
\* configuration and of the volume manager raises NotImplementedError and
\* leaves the state of the object as it was; set_property_readonly_root
\* raises KiwiVolumeManagerSetupError on every call.
C11_AbstractHooks ==
    [][ /\ (op' \in BootLoaderHooks \cup VolumeManagerHooks) =>
             (raised' = "NotImplementedError" /\ UNCHANGED ObjectState)
        /\ (op' = "set_property_readonly_root") =>
             (raised' = "KiwiVolumeManagerSetupError"
                /\ UNCHANGED ObjectState) ]_vars

C11_Witness ==
    /\ op = "mount_volumes" /\ raised = "NotImplementedError"
    /\ backend = "base" /\ constructed
    /\ mountpoint = "/tmp/kiwi_volumes.a" /\ mounted_at = None

-----------------------------------------------------------------------------
(* BootLoaderConfigBase: install boot entry and boot timeout               *)

InstallBoots == {None, "", "install", "failsafe-install", "harddisk",
                 "Install"}
BootTimeouts == {<<>>, <<0>>, <<1>>, <<10>>, <<30>>}
DefaultBootTimeout == 10

\* faulty variant: the two install entries are taken for each other
get_install_image_boot_id_entries_swapped ==
    IF installboot = "failsafe-install" THEN 1
    ELSE IF installboot = "install" THEN 2
    ELSE 0

\* get_install_image_boot_id()
get_install_image_boot_id ==
    IF installboot = "failsafe-install" THEN 2
    ELSE IF installboot = "install" THEN 1
    ELSE 0

\* get_boot_timeout_seconds(); "not timeout_seconds" is true of None and
\* of the integer 0
get_boot_timeout_seconds ==
    IF boottimeout = <<>> \/ boottimeout[1] = 0
    THEN DefaultBootTimeout
    ELSE boottimeout[1]

InitMenu ==
    /\ filesystem \in Filesystems
    /\ firmware = None
    /\ kernelcmdline = None
    /\ xml_volumes = <<>>
    /\ need_boot_partition = FALSE
    /\ installboot \in InstallBoots
    /\ boottimeout \in BootTimeouts
    /\ VolIdle
    /\ InstallIdle
    /\ NoCall

GetInstallImageBootId ==
    /\ op' = "get_install_image_boot_id"
    /\ arg' = <<>>
    /\ raised' = None
    /\ rettype' = "int"
    /\ retint' = get_install_image_boot_id
    /\ ext_calls' = <<>>
    /\ UNCHANGED <<bootVars, installVars, volVars, volRet, syncVars, retstr>>

GetBootTimeoutSeconds ==
    /\ op' = "get_boot_timeout_seconds"
    /\ arg' = <<>>
    /\ raised' = None
    /\ rettype' = "int"
    /\ retint' = get_boot_timeout_seconds
    /\ ext_calls' = <<>>
    /\ UNCHANGED <<bootVars, installVars, volVars, volRet, syncVars, retstr>>

NextMenu == GetInstallImageBootId \/ GetBootTimeoutSeconds

SpecMenu == InitMenu /\ [][NextMenu]_vars

\* C12: get_install_image_boot_id returns 2 when the configured install
\* boot entry is 'failsafe-install', 1 when it is 'install', and 0 for
\* every other value, an unset one included.
C12_InstallImageBootId ==
    op = "get_install_image_boot_id" =>
        /\ raised = None /\ rettype = "int"
        /\ (installboot = "failsafe-install") => retint = 2
        /\ (installboot = "install") => retint = 1
        /\ (installboot \notin {"failsafe-install", "install"}) => retint = 0

C12_Witness ==
    /\ op = "get_install_image_boot_id"
    /\ installboot = "failsafe-install" /\ retint = 2

\* C13: get_boot_timeout_seconds returns the configured boot timeout
\* whenever one is configured, 0 included, and 10 only when none is
\* configured.
C13_BootTimeoutAsConfigured ==
    op = "get_boot_timeout_seconds" =>
        /\ raised = None
        /\ (boottimeout # <<>>) => retint = boottimeout[1]
        /\ (boottimeout = <<>>) => retint = 10

-----------------------------------------------------------------------------
(* BootLoaderConfigBase: the failsafe kernel command line                  *)

\* __get_failsafe_kernel_options()
get_failsafe_kernel_options ==
    Join(<<"ide=nodma", "apm=off", "noresume", "edd=off", "powersaved=off",
           "nohz=off", "highres=off", "processsor.max+cstate=1",
           "nomodeset", "x11failsafe">>, " ")

\* faulty variant: the options are appended without the separating blank
get_failsafe_boot_cmdline_no_separator ==
    LET c == get_boot_cmdline IN
      IF c.raised # None
      THEN [raised |-> c.raised, value |-> None]
      ELSE [raised |-> None, value |-> c.value \o get_failsafe_kernel_options]

\* get_failsafe_boot_cmdline(): [raised, value]
get_failsafe_boot_cmdline ==
    LET c == get_boot_cmdline IN
      IF c.raised # None
      THEN [raised |-> c.raised, value |-> None]
      ELSE [raised |-> None,
            value |-> c.value \o " " \o get_failsafe_kernel_options]

GetFailsafeBootCmdline ==
    LET r == get_failsafe_boot_cmdline IN
      /\ op' = "get_failsafe_boot_cmdline"
      /\ arg' = <<>>
      /\ raised' = r.raised
      /\ rettype' = IF r.raised = None THEN "str" ELSE "none"
      /\ retstr' = r.value
      /\ ext_calls' = <<>>
      /\ UNCHANGED <<bootVars, installVars, volVars, volRet, syncVars, retint>>

NextFailsafe == NextBoot \/ GetFailsafeBootCmdline

SpecFailsafe == InitBoot /\ [][NextFailsafe]_vars

\* C14: whenever get_boot_cmdline returns, get_failsafe_boot_cmdline
\* returns that result followed by one blank and the ten failsafe options,
\* in their fixed order with one blank between two of them; the options
\* are the same for every descriptor.
C14_FailsafeBootCmdline ==
    op = "get_failsafe_boot_cmdline" =>
        /\ (raised = None) <=> (get_boot_cmdline.raised = None)
        /\ (raised = None) =>
             /\ rettype = "str"
             /\ retstr = get_boot_cmdline.value
                  \o " ide=nodma apm=off noresume edd=off powersaved=off"
                  \o " nohz=off highres=off processsor.max+cstate=1"
                  \o " nomodeset x11failsafe"

C14_Witness ==
    /\ op = "get_failsafe_boot_cmdline" /\ raised = None
    /\ kernelcmdline = "quiet" /\ firmware = "ec2"
    /\ retstr = "quiet root=/dev/sda1 ide=nodma apm=off noresume edd=off"
                \o " powersaved=off nohz=off highres=off"
                \o " processsor.max+cstate=1 nomodeset x11failsafe"

\* C14 as stated: the result is that of get_boot_cmdline followed by the
\* ten failsafe options, and every two neighbouring tokens of it are
\* separated by exactly one blank.
C14_FailsafeSingleSpaced ==
    (op = "get_failsafe_boot_cmdline" /\ raised = None) =>
        /\ retstr = get_boot_cmdline.value \o " "
                      \o get_failsafe_kernel_options
        /\ ~Contains(retstr, "  ")

-----------------------------------------------------------------------------
(* VolumeManagerBase.create_volume_paths_in_root_dir                       *)

\* os.path.exists(path)
os_path_exists(existing, path) == path \in existing

\* the path itself and the directories above it, the file system root
\* excepted
PathAndParents(path) ==
    { SubSeq(path, 1, i) : i \in { j \in 1..Len(path) :
                                     j = Len(path) \/ Char(path, j + 1) = "/" } }

\* Path.create(path): the directory and its missing parents are made, the
\* directories that exist are not touched
Path_create(existing, path) == existing \cup PathAndParents(path)

\* faulty variant: the volume path is made outside of the root directory
RECURSIVE create_volume_paths_outside_root_dir(_, _, _)
create_volume_paths_outside_root_dir(root, vols, existing) ==
    IF vols = <<>> THEN existing
    ELSE
      LET volume == Head(vols)
          volume_image_path == NormPath(volume.realpath)
          made == IF Truthy(volume.realpath) /\ volume.realpath # "/"
                       /\ ~os_path_exists(existing, volume_image_path)
                  THEN Path_create(existing, volume_image_path)
                  ELSE existing
      IN create_volume_paths_outside_root_dir(root, Tail(vols), made)

\* create_volume_paths_in_root_dir(): the paths that exist afterwards
RECURSIVE create_volume_paths_in_root_dir(_, _, _)
create_volume_paths_in_root_dir(root, vols, existing) ==
    IF vols = <<>> THEN existing
    ELSE
      LET volume == Head(vols)
          made == IF Truthy(volume.realpath) /\ volume.realpath # "/"
                  THEN LET volume_image_path ==
                             NormPath(root \o "/" \o volume.realpath)
                       IN IF ~os_path_exists(existing, volume_image_path)
                          THEN Path_create(existing, volume_image_path)
                          ELSE existing
                  ELSE existing
      IN create_volume_paths_in_root_dir(root, Tail(vols), made)

\* what may exist below the root directory before the call, as paths
\* relative to it
PreExisting == { {}, {"var"}, {"var", "var/log"}, {"opt"} }

\* the root directory exists (__init__ has checked it), with some
\* directories in it
InitPaths ==
    /\ \E p \in PathSeqs(MaxSizedVolumes) :
         volumes = [i \in 1..Len(p) |->
                      [realpath |-> p[i], size |-> "freespace:20",
                       fullsize |-> FALSE]]
    /\ root_dir \in RootDirs
    /\ \E pre \in PreExisting :
         existing_paths = PathAndParents(NormPath(root_dir))
            \cup { NormPath(root_dir) \o "/" \o d : d \in pre }
    /\ SyncIdle
    /\ BootIdle
    /\ InstallIdle
    /\ NoCall

CreateVolumePathsInRootDir ==
    /\ existing_paths' =
         create_volume_paths_in_root_dir(root_dir, volumes, existing_paths)
    /\ op' = "create_volume_paths_in_root_dir"
    /\ arg' = <<>>
    /\ raised' = None
    /\ ext_calls' = <<>>
    /\ UNCHANGED <<bootVars, installVars, root_dir, volumes, callRest, syncVars>>

NextPaths == CreateVolumePathsInRootDir

SpecPaths == InitPaths /\ [][NextPaths]_vars

\* the volumes whose path is made: a non-empty realpath that is not '/'
PathVolumes ==
    { i \in 1..Len(volumes) :
        /\ volumes[i].realpath # None /\ volumes[i].realpath # ""
        /\ volumes[i].realpath # "/" }

\* root_dir + realpath, written without doubled or trailing slashes
VolumeImagePath(i) ==
    (IF StartsWith(root_dir, "/") THEN "/" ELSE "")
      \o Join(Components(root_dir) \o Components(volumes[i].realpath), "/")

\* C15: a call of create_volume_paths_in_root_dir ends with root_dir +
\* realpath existing for every volume with a non-empty realpath other than
\* '/'; what existed before still exists; everything new is such a volume
\* path or a directory above one, so a volume with realpath '/' or without
\* realpath has nothing made for it; a second call changes nothing.
C15_VolumePathsCreated ==
    [][ (op' = "create_volume_paths_in_root_dir") =>
          /\ raised' = None
          /\ \A i \in PathVolumes : VolumeImagePath(i) \in existing_paths'
          /\ existing_paths \subseteq existing_paths'
          /\ \A p \in existing_paths' \ existing_paths :
               \E i \in PathVolumes : p \in PathAndParents(VolumeImagePath(i))
          /\ (op = "create_volume_paths_in_root_dir") =>
               existing_paths' = existing_paths ]_vars

C15_Witness ==
    /\ op = "create_volume_paths_in_root_dir"
    /\ root_dir = "img/"
    /\ Len(volumes) = 3
    /\ volumes[1].realpath = "/var/log" /\ volumes[2].realpath = "/"
    /\ volumes[3].realpath = None
    /\ existing_paths = {"img", "img/opt", "img/var", "img/var/log"}

-----------------------------------------------------------------------------
(* More claims about sync_data, checked under SpecSync                     *)

\* C16 as stated, on the calls that raise nothing: sync_data calls
\* umount_volumes exactly when it called mount_volumes in the same call,
\* so a call that finds the volumes mounted does not unmount them; a call
\* without a mount root mounts, copies and unmounts nothing.
C16_UmountOnlyAfterOwnMount ==
    (op = "sync_data" /\ raised = None) =>
        /\ (Calls("umount_volumes") # {}) <=> (Calls("mount_volumes") # {})
        /\ was_mounted => Calls("umount_volumes") = {}
        /\ ~Truthy(mountpoint) => ext_calls = <<>>

\* C16: with a mount root, sync_data calls mount_volumes exactly when the
\* volumes were not mounted on entry; every call that raises nothing has
\* called umount_volumes once, after the copy, also when the volumes were
\* mounted on entry; umount_volumes is never called before a copy; a call
\* without a mount root mounts, copies and unmounts nothing.
C16_MountIfUnmountedUmountAlways ==
    op = "sync_data" =>
        /\ ~Truthy(mountpoint) => (ext_calls = <<>> /\ raised = None)
        /\ Truthy(mountpoint) =>
             /\ (Calls("mount_volumes") # {}) <=> ~was_mounted
             /\ (raised = None) =>
                  /\ Cardinality(Calls("umount_volumes")) = 1
                  /\ mounted_at = None
             /\ \A u \in Calls("umount_volumes") :
                  \E c \in Calls("DataSync.sync_data") : c < u

C16_Witness ==
    /\ op = "sync_data" /\ raised = None /\ was_mounted
    /\ Truthy(mountpoint)
    /\ ext_calls = <<"MountManager.is_mounted", "DataSync.sync_data",
                     "umount_volumes">>
    /\ mounted_at = None

-----------------------------------------------------------------------------
(* More claims about get_volume_mbsize, checked under SpecSize             *)

\* C17: for a size spec whose type is not 'freespace' and an image type
\* that is not 'oem', get_volume_mbsize returns the value of the spec as an
\* integer, as the freespace branch does, with no minimum and no overhead
\* added and without measuring the tree.
C17_DeclaredSizeIsInteger ==
    ( /\ op = "get_volume_mbsize" /\ arg[2] # "oem"
      /\ Split(volumes[argvol].size, ":")[1] # "freespace" ) =>
        /\ raised = None
        /\ rettype = "int"
        /\ retint = ParseInt(Split(volumes[argvol].size, ":")[2])
        /\ ext_calls = <<>>

-----------------------------------------------------------------------------
(* More claims about get_canonical_volume_list, checked under SpecList     *)

\* the fullsize volume that is configured last
LastFullsize == CHOOSE i \in FullsizeIndexes : \A j \in FullsizeIndexes : j <= i

\* C18: when several volumes are marked fullsize, the one that comes last
\* in the configured order is returned as full_size_volume, and none of
\* the volumes marked fullsize is in the ordered list.
C18_LastFullsizeWins ==
    (op = "get_canonical_volume_list" /\ Cardinality(FullsizeIndexes) >= 2) =>
        /\ retfull = <<volumes[LastFullsize]>>
        /\ \A i \in FullsizeIndexes, j \in 1..Len(retlist) :
             retlist[j] # volumes[i]

C18_Witness ==
    /\ op = "get_canonical_volume_list"
    /\ RealpathsOf(volumes) = <<"/", "/var", "/opt", "/var/log">>
    /\ FullsizeIndexes = {1, 3}
    /\ retfull = <<volumes[3]>>
    /\ RealpathsOf(retlist) = <<"/var", "/var/log">>

-----------------------------------------------------------------------------
(* More claims about get_boot_cmdline, checked under SpecBoot              *)

\* C19: get_boot_cmdline returns a string and raises nothing for every
\* descriptor; with no kernel command line configured the string is
\* 'root=/dev/sda1' for firmware ec2, 'root=/dev/hda1' for ec2hvm and ''
\* for every other firmware.
C19_BootCmdlineNeverRaises ==
    op = "get_boot_cmdline" =>
        /\ raised = None
        /\ rettype = "str"
        /\ (kernelcmdline = None \/ kernelcmdline = "") =>
             retstr = IF firmware = "ec2" THEN "root=/dev/sda1"
                      ELSE IF firmware = "ec2hvm" THEN "root=/dev/hda1"
                      ELSE ""

-----------------------------------------------------------------------------
(* InstallImageBuilder  (src/kiwi/builder/install.py): the temporary       *)
(* directories of create_install_iso and create_install_pxe_archive        *)

\* mkdtemp calls made on one builder
MaxTempDirs == 4

\* the random part of the names mkdtemp hands out, by number of the call
TempSuffixes == <<"a", "b", "c", "d", "e", "f", "g", "h">>

\* mkdtemp(prefix=..., dir=self.target_dir): a directory that did not exist
mkdtemp(prefix, made) == prefix \o TempSuffixes[Cardinality(made) + 1]

\* the steps of create_install_iso that can fail, in order
IsoSteps ==
    << "mkdtemp", "SystemSetup.import_cdroot_files", "mkdtemp",
       "Checksum.md5", "_write_install_image_info_to_iso_image",
       "Command.run", "FileSystemSquashFs.create_on_file", "Command.run",
       "BootLoaderConfig.write", "_create_iso_install_kernel_and_initrd",
       "_copy_system_image_initrd_to_iso_image",
       "FileSystemIsoFs.create_on_file" >>

\* the steps of create_install_pxe_archive that can fail, in order
PxeSteps ==
    << "mkdtemp", "Compress.xz", "Command.run", "Checksum.md5",
       "_create_pxe_install_kernel_and_initrd", "ArchiveTar.create" >>

\* the exception a failing step raises
StepError(step) ==
    IF step = "mkdtemp" THEN "OSError"
    ELSE IF step \in { "_create_iso_install_kernel_and_initrd",
                       "_create_pxe_install_kernel_and_initrd" }
    THEN "KiwiInstallBootImageError"
    ELSE "KiwiCommandError"

\* the result of a run of steps of which step number fail fails (0: none)
StepResult(b, steps, fail) ==
    [builder |-> b,
     raised |-> IF fail = 0 THEN None ELSE StepError(steps[fail]),
     calls |-> IF fail = 0 THEN steps ELSE SubSeq(steps, 1, fail)]

\* the attributes of the builder and the directories on disk
Builder ==
    [media_dir |-> media_dir, pxe_dir |-> pxe_dir,
     squashed_contents |-> squashed_contents,
     temp_dirs |-> temp_dirs, made_dirs |-> made_dirs]

\* create_install_iso(): [builder, raised, calls]
create_install_iso(b, fail) ==
    LET media == mkdtemp("kiwi_install_media.", b.made_dirs)
        b1 == IF fail = 1 THEN b
              ELSE [b EXCEPT !.media_dir = media,
                             !.temp_dirs = @ \cup {media},
                             !.made_dirs = @ \cup {media}]
        squash == mkdtemp("kiwi_install_squashfs.", b1.made_dirs)
        b2 == IF fail \in 1..3 THEN b1
              ELSE [b1 EXCEPT !.squashed_contents = squash,
                              !.temp_dirs = @ \cup {squash},
                              !.made_dirs = @ \cup {squash}]
    IN StepResult(b2, IsoSteps, fail)

\* create_install_pxe_archive(): [builder, raised, calls]
create_install_pxe_archive(b, fail) ==
    LET pxe == mkdtemp("kiwi_pxe_install_media.", b.made_dirs)
        b1 == IF fail = 1 THEN b
              ELSE [b EXCEPT !.pxe_dir = pxe,
                             !.temp_dirs = @ \cup {pxe},
                             !.made_dirs = @ \cup {pxe}]
    IN StepResult(b1, PxeSteps, fail)

\* Path.wipe(path): the directory is removed with what is in it
Path_wipe(dirs, path) == dirs \ {path}

\* __del__(): [builder, calls]
del(b) ==
    LET t1 == IF Truthy(b.media_dir)
              THEN Path_wipe(b.temp_dirs, b.media_dir) ELSE b.temp_dirs
        t2 == IF Truthy(b.pxe_dir) THEN Path_wipe(t1, b.pxe_dir) ELSE t1
        t3 == IF Truthy(b.squashed_contents)
              THEN Path_wipe(t2, b.squashed_contents) ELSE t2
    IN [builder |-> [b EXCEPT !.temp_dirs = t3],
        calls |-> [i \in 1..Cardinality(
                      { d \in {b.media_dir, b.pxe_dir, b.squashed_contents} :
                          Truthy(d) }) |-> "Path.wipe"]]

\* the builder as __init__ leaves it
InitInstall ==
    /\ InstallIdle
    /\ BootIdle
    /\ VolIdle
    /\ NoCall

\* the builder's attributes and the disk become those of b
BuilderBecomes(b) ==
    /\ media_dir' = b.media_dir
    /\ pxe_dir' = b.pxe_dir
    /\ squashed_contents' = b.squashed_contents
    /\ temp_dirs' = b.temp_dirs
    /\ made_dirs' = b.made_dirs

CreateInstallIso ==
    /\ ~destroyed
    /\ Cardinality(made_dirs) + 2 <= MaxTempDirs
    /\ \E fail \in 0..Len(IsoSteps) :
         LET r == create_install_iso(Builder, fail) IN
           /\ BuilderBecomes(r.builder)
           /\ raised' = r.raised
           /\ ext_calls' = r.calls
    /\ op' = "create_install_iso"
    /\ arg' = <<>>
    /\ UNCHANGED <<bootVars, volVars, callRest, syncVars, destroyed>>

CreateInstallPxeArchive ==
    /\ ~destroyed
    /\ Cardinality(made_dirs) + 1 <= MaxTempDirs
    /\ \E fail \in 0..Len(PxeSteps) :
         LET r == create_install_pxe_archive(Builder, fail) IN
           /\ BuilderBecomes(r.builder)
           /\ raised' = r.raised
           /\ ext_calls' = r.calls
    /\ op' = "create_install_pxe_archive"
    /\ arg' = <<>>
    /\ UNCHANGED <<bootVars, volVars, callRest, syncVars, destroyed>>

Del ==
    /\ ~destroyed
    /\ LET r == del(Builder) IN
         /\ BuilderBecomes(r.builder)
         /\ ext_calls' = r.calls
    /\ destroyed' = TRUE
    /\ op' = "__del__"
    /\ arg' = <<>>
    /\ raised' = None
    /\ UNCHANGED <<bootVars, volVars, callRest, syncVars>>

NextInstall == CreateInstallIso \/ CreateInstallPxeArchive \/ Del

SpecInstall == InitInstall /\ [][NextInstall]_vars

\* C20: once the builder is destroyed, after any sequence of
\* create_install_iso and create_install_pxe_archive calls, each succeeding
\* or failing at any step, every temporary directory those calls made
\* (install media, squashfs contents, PXE media) has been wiped.
C20_AllTempDirsWiped ==
    destroyed => \A d \in made_dirs : d \notin temp_dirs

=============================================================================
